---- MODULE Spec2Model ----
(***************************************************************************)
(* Model of the sprite-batching render core of rustGameGDX:                *)
(*   src/src/graphics/sprite.rs     SpriteQueue, SpriteBatch, SpriteRenderer*)
(*   src/src/graphics/animation.rs  Animation                              *)
(*   src/src/graphics/texture.rs    TextureRegion                          *)
(*                                                                         *)
(* Four specifications share the module:                                   *)
(*   Spec       the batching state machine (begin_batch / draw / finish /  *)
(*              disposal of the batch), with a draw target that may fail;  *)
(*   AnimSpec   Animation::new, play_mode and current_key_frame;           *)
(*   SplitSpec  TextureRegion::split;                                      *)
(*   SpriteSpec Sprite's setters and get_vertex_data.                      *)
(* Indices named after the source (offset, i, frame numbers, region        *)
(* indices) are 0-based as in the source; TLA+ sequences are 1-based, so   *)
(* element i of a Vec v is v[i + 1].                                       *)
(***************************************************************************)
EXTENDS Integers, Sequences, FiniteSets, TLC

VARIABLES
    sprite_queue,   \* SpriteRenderer.sprite_queue: [vertices, textures]
    vertex_buffer,  \* SpriteRenderer.vertex_buffer: contents of the GPU buffer
    batch,          \* the SpriteBatch borrowed from the renderer
    outcome,        \* what the last call returned / how it ended
    disposed,       \* what happened when the batch value was dropped
    drawn,          \* history: sprites enqueued by draw() in this batch
    submitted,      \* history: submissions the draw target accepted, this batch
    target_errors,  \* history: submissions the draw target refused, this batch
    calls,          \* history: draw() calls made on this batch
    batches,        \* history: batches opened on the renderer
    immediate,      \* history: submissions made by SpriteRenderer::draw
    discarded,      \* history: quads the queue held when this batch was opened
    anim,           \* the Animation under test (AnimSpec)
    anim_out,       \* result of the last Animation call
    texture_size,   \* dimensions of the texture under test (SplitSpec)
    split_out,      \* result of the last TextureRegion::split call
    this_sprite,    \* the Sprite under test (SpriteSpec)
    vertex_out      \* result of the last Sprite::get_vertex_data call

batchVars == <<sprite_queue, vertex_buffer, batch, outcome, disposed, drawn,
               submitted, target_errors, calls, batches, immediate,
               discarded>>
animVars == <<anim, anim_out>>
splitVars == <<texture_size, split_out>>
spriteVars == <<this_sprite, vertex_out>>
vars == <<batchVars, animVars, splitVars, spriteVars>>

(***************************************************************************)
(* Constants of sprite.rs.  BATCH_SIZE is 1024 in the source               *)
(* (sprite.rs:17); the code only ever compares the queue length with it    *)
(* and multiplies by it, so the model runs the same code with a scaled     *)
(* capacity and treats BATCH_SIZE as a bound of the model.                 *)
(***************************************************************************)
QUAD_VERTEX_SIZE == 4
QUAD_INDEX_SIZE == 6
BATCH_SIZE == 2
BATCH_VERTEX_SIZE == QUAD_VERTEX_SIZE * BATCH_SIZE
BATCH_INDEX_SIZE == QUAD_INDEX_SIZE * BATCH_SIZE

\* Bounds of the batching model.
NumTextures == 2    \* distinct Rc<Texture2d> identities the caller draws with
MaxCalls == 4       \* draw() calls per batch
MaxBatches == 2     \* batches opened and immediate draws made on one renderer

Textures == 1..NumTextures
NoVertex == <<0, 0, 0>>

Min(a, b) == IF a <= b THEN a ELSE b

(***************************************************************************)
(* Sprite::get_vertex_data, as far as batching is concerned: four vertices *)
(* that belong to the sprite, in output order.  A vertex is <<batch, sprite *)
(* id, corner>>: the batch the sprite was drawn in (0 for an immediate     *)
(* draw), the sprite's number in it, and the output position.              *)
(***************************************************************************)
get_vertex_data(sprite) ==
    [c \in 1..QUAD_VERTEX_SIZE |-> <<sprite.batch, sprite.id, c>>]

\* ---------------------------------------------------------------- SpriteQueue
SpriteQueue_new == [vertices |-> <<>>, textures |-> <<>>]

\* Mutant of clear: the queue keeps its contents.
clear_Keeps(queue) == queue

clear(queue) == [vertices |-> <<>>, textures |-> <<>>]

len(queue) == Len(queue.textures)

\* Mutant of push: the last vertex of the quad is not stored.
push_DropsVertex(queue, vertices, texture) ==
    IF ~(Len(queue.textures) < BATCH_SIZE)
    THEN [panic |-> TRUE, queue |-> queue]
    ELSE [panic |-> FALSE,
          queue |-> [vertices |-> queue.vertices
                                  \o SubSeq(vertices, 1, Len(vertices) - 1),
                     textures |-> Append(queue.textures, texture)]]

\* push: the assertion fails (panic) when the queue is full.
push(queue, vertices, texture) ==
    IF ~(Len(queue.textures) < BATCH_SIZE)
    THEN [panic |-> TRUE, queue |-> queue]
    ELSE [panic |-> FALSE,
          queue |-> [vertices |-> queue.vertices \o vertices,
                     textures |-> Append(queue.textures, texture)]]

\* ---------------------------------------------------------------- index buffer
\* Mutant of QuadOffset: the offset is computed in 8 bits.
QuadOffset_U8(quad_index) == ((quad_index % 2^8) * (QUAD_VERTEX_SIZE % 2^8)) % 2^8

\* quad_index as u16 * QUAD_VERTEX_SIZE as u16 (sprite.rs:267), wrapping.
QuadOffset(quad_index) == ((quad_index % 2^16) * (QUAD_VERTEX_SIZE % 2^16)) % 2^16

\* new_indices for one quad (sprite.rs:268-271), each sum in 16 bits.
NewIndices(quad_index) ==
    LET offset == QuadOffset(quad_index)
    IN  <<(0 + offset) % 2^16, (1 + offset) % 2^16, (2 + offset) % 2^16,
          (0 + offset) % 2^16, (2 + offset) % 2^16, (3 + offset) % 2^16>>

\* The indices vector built by with_shader for a batch of the given size.
Indices(batch_size) ==
    [k \in 1..(QUAD_INDEX_SIZE * batch_size) |->
        NewIndices((k - 1) \div QUAD_INDEX_SIZE)[((k - 1) % QUAD_INDEX_SIZE) + 1]]

\* SpriteRenderer.index_buffer: immutable once the renderer is built.
index_buffer == Indices(BATCH_SIZE)

\* The batch size of the source, and the index buffer the source builds.
SOURCE_BATCH_SIZE == 1024
source_index_buffer == Indices(SOURCE_BATCH_SIZE)

\* ---------------------------------------------------------------- SpriteBatch
SpriteBatch_new == [live |-> TRUE, draw_calls |-> 0, finished |-> FALSE]

NoBatch == [live |-> FALSE, draw_calls |-> 0, finished |-> FALSE]

\* vertex_buffer.slice(0..n).write(vertices)
write(vb, vertices) ==
    vertices \o SubSeq(vb, Len(vertices) + 1, Len(vb))

\* Mutant of Submission: the vertex range always starts at the buffer's start.
Submission_FromZero(vb, render_texture, offset, i) ==
    [texture      |-> render_texture,
     vertex_start |-> 0,
     vertex_end   |-> i * QUAD_VERTEX_SIZE,
     index_start  |-> offset * QUAD_INDEX_SIZE,
     index_end    |-> i * QUAD_INDEX_SIZE,
     vertices     |-> SubSeq(vb, 1, i * QUAD_VERTEX_SIZE)]

\* One target.draw(...) call of flush: the submission over quads [offset, i).
Submission(vb, render_texture, offset, i) ==
    [texture      |-> render_texture,
     vertex_start |-> offset * QUAD_VERTEX_SIZE,
     vertex_end   |-> i * QUAD_VERTEX_SIZE,
     index_start  |-> offset * QUAD_INDEX_SIZE,
     index_end    |-> i * QUAD_INDEX_SIZE,
     vertices     |-> SubSeq(vb, offset * QUAD_VERTEX_SIZE + 1, i * QUAD_VERTEX_SIZE)]

\* The draw-target refuses the failAt-th submission of a flush (0: none).
TargetFails(st, failAt) == Len(st.issued) + 1 = failAt

\* self.draw_calls += 1 after an accepted submission
CountDrawCall(draw_calls) == draw_calls + 1

\* Mutant of Refused: a refused submission is counted like an accepted one.
Refused_Counted(st) == [st EXCEPT !.failed = TRUE, !.draw_calls = CountDrawCall(@)]

\* target.draw(...)? returning Err: flush returns at once, nothing counted.
Refused(st) == [st EXCEPT !.failed = TRUE]

\* Mutant of FlushLast: the final submission is made but not counted.
FlushLast_Uncounted(textures, vb, loc, st, failAt) ==
    IF TargetFails(st, failAt)
    THEN Refused(st)
    ELSE [st EXCEPT
            !.issued = Append(@, Submission(vb, loc.render_texture, loc.offset,
                                            Len(textures)))]

\* The final submission of flush (sprite.rs:158-180), over quads [offset, len).
FlushLast(textures, vb, loc, st, failAt) ==
    IF TargetFails(st, failAt)
    THEN Refused(st)
    ELSE [st EXCEPT
            !.issued = Append(@, Submission(vb, loc.render_texture, loc.offset,
                                            Len(textures))),
            !.draw_calls = CountDrawCall(@)]

\* Mutant of SameTexture: the scan never sees a texture change.
SameTexture_Always(texture, render_texture) == TRUE

\* Texture identity test of the scan (sprite.rs:130).
SameTexture(texture, render_texture) == texture = render_texture

\* The scan of flush (sprite.rs:127-156): i runs over 1 .. len-1.
RECURSIVE FlushScan(_, _, _, _, _, _)
FlushScan(textures, vb, i, loc, st, failAt) ==
    IF i >= Len(textures)
    THEN FlushLast(textures, vb, loc, st, failAt)
    ELSE IF ~SameTexture(textures[i + 1], loc.render_texture)
         THEN IF TargetFails(st, failAt)
              THEN Refused(st)
              ELSE FlushScan(textures, vb, i + 1,
                             [offset |-> i, render_texture |-> textures[i + 1]],
                             [st EXCEPT
                                !.issued = Append(@, Submission(vb, loc.render_texture,
                                                                loc.offset, i)),
                                !.draw_calls = CountDrawCall(@)],
                             failAt)
         ELSE FlushScan(textures, vb, i + 1, loc, st, failAt)

\* Mutant of FlushQueued: the queue is cleared whether the flush failed or not.
FlushQueued_ClearsOnError(queue, vb, draw_calls, failAt) ==
    LET vb2 == write(vb, queue.vertices)
        st == FlushScan(queue.textures, vb2, 1,
                        [offset |-> 0, render_texture |-> queue.textures[1]],
                        [draw_calls |-> draw_calls, issued |-> <<>>,
                         failed |-> FALSE],
                        failAt)
    IN  [ok |-> ~st.failed,
         sprite_queue |-> clear(queue),
         vertex_buffer |-> vb2,
         draw_calls |-> st.draw_calls,
         issued |-> st.issued]

\* flush past its empty-queue return (sprite.rs:109-184): upload, scan,
\* final submission, clear.
FlushQueued(queue, vb, draw_calls, failAt) ==
    LET vb2 == write(vb, queue.vertices)
        st == FlushScan(queue.textures, vb2, 1,
                        [offset |-> 0, render_texture |-> queue.textures[1]],
                        [draw_calls |-> draw_calls, issued |-> <<>>,
                         failed |-> FALSE],
                        failAt)
    IN  [ok |-> ~st.failed,
         sprite_queue |-> IF st.failed THEN queue ELSE clear(queue),
         vertex_buffer |-> vb2,
         draw_calls |-> st.draw_calls,
         issued |-> st.issued]

\* Mutant of flush: a flush of the empty queue is counted as a submission.
flush_CountsEmpty(queue, vb, draw_calls, failAt) ==
    IF queue.vertices = <<>>
    THEN [ok |-> TRUE, sprite_queue |-> queue, vertex_buffer |-> vb,
          draw_calls |-> CountDrawCall(draw_calls), issued |-> <<>>]
    ELSE FlushQueued(queue, vb, draw_calls, failAt)

\* SpriteBatch::flush.  ok = FALSE is the Err(DrawError) return.
flush(queue, vb, draw_calls, failAt) ==
    IF queue.vertices = <<>>
    THEN [ok |-> TRUE, sprite_queue |-> queue, vertex_buffer |-> vb,
          draw_calls |-> draw_calls, issued |-> <<>>]
    ELSE FlushQueued(queue, vb, draw_calls, failAt)

\* Mutant of AtCapacity: the flush is triggered one quad too late.
AtCapacity_OffByOne(queue) == len(queue) = BATCH_SIZE + 1

\* Mutant of AtCapacity: the flush is triggered one quad too early.
AtCapacity_Early(queue) == len(queue) >= BATCH_SIZE - 1

\* Capacity test of draw (sprite.rs:88).
AtCapacity(queue) == len(queue) = BATCH_SIZE

\* Drop for SpriteBatch: TRUE when the assertion fails (panic).
drop(b, panicking) == ~panicking /\ ~b.finished

Outcome(op, result, value, panic) ==
    [op |-> op, result |-> result, value |-> value, panic |-> panic]

NotDisposed == [happened |-> FALSE, finished |-> FALSE, panicking |-> FALSE,
                aborted |-> FALSE]

Disposal(b, panicking) ==
    [happened |-> TRUE, finished |-> b.finished, panicking |-> panicking,
     aborted |-> drop(b, panicking)]

Running == outcome.panic = "none"

\* ---------------------------------------------------------------- actions
\* SpriteRenderer::begin_batch -> SpriteBatch::new
BeginBatch ==
    /\ Running
    /\ ~batch.live
    /\ batches + Len(immediate) < MaxBatches
    /\ sprite_queue' = clear(sprite_queue)
    /\ discarded' = len(sprite_queue)
    /\ batch' = SpriteBatch_new
    /\ outcome' = Outcome("begin_batch", "Ok", 0, "none")
    /\ disposed' = NotDisposed
    /\ drawn' = <<>>
    /\ submitted' = <<>>
    /\ target_errors' = 0
    /\ calls' = 0
    /\ batches' = batches + 1
    /\ UNCHANGED <<vertex_buffer, immediate, animVars, splitVars, spriteVars>>

\* SpriteBatch::draw
Draw(texture, failAt) ==
    /\ Running
    /\ batch.live
    /\ calls < MaxCalls
    /\ LET sprite == [batch |-> batches, id |-> calls + 1, texture |-> texture]
           f == IF AtCapacity(sprite_queue)
                THEN flush(sprite_queue, vertex_buffer, batch.draw_calls, failAt)
                ELSE [ok |-> TRUE, sprite_queue |-> sprite_queue,
                      vertex_buffer |-> vertex_buffer,
                      draw_calls |-> batch.draw_calls, issued |-> <<>>]
           p == push(f.sprite_queue, get_vertex_data(sprite), sprite.texture)
       IN  /\ vertex_buffer' = f.vertex_buffer
           /\ submitted' = submitted \o f.issued
           /\ target_errors' = target_errors + (IF f.ok THEN 0 ELSE 1)
           /\ calls' = calls + 1
           /\ IF ~f.ok
              THEN /\ sprite_queue' = f.sprite_queue
                   /\ batch' = [batch EXCEPT !.draw_calls = f.draw_calls]
                   /\ outcome' = Outcome("draw", "Err", 0, "none")
                   /\ UNCHANGED <<drawn, disposed>>
              ELSE IF p.panic
              THEN \* the batch is dropped while the thread unwinds
                   /\ sprite_queue' = f.sprite_queue
                   /\ batch' = NoBatch
                   /\ disposed' = Disposal([batch EXCEPT !.draw_calls = f.draw_calls], TRUE)
                   /\ outcome' = Outcome("draw", "None", 0, "queue_full")
                   /\ UNCHANGED drawn
              ELSE /\ sprite_queue' = p.queue
                   /\ batch' = [batch EXCEPT !.draw_calls = f.draw_calls]
                   /\ drawn' = Append(drawn, sprite)
                   /\ outcome' = Outcome("draw", "Ok", 0, "none")
                   /\ UNCHANGED disposed
    /\ UNCHANGED <<batches, immediate, discarded, animVars, splitVars, spriteVars>>

\* Mutant of MarkFinished: finish() forgets to set the flag.
MarkFinished_Forgotten(b) == b

\* The flag assignment of finish (sprite.rs:100).
MarkFinished(b) == [b EXCEPT !.finished = TRUE]

\* SpriteBatch::finish(mut self): self is dropped when the call returns.
Finish(failAt) ==
    /\ Running
    /\ batch.live
    /\ LET f == flush(sprite_queue, vertex_buffer, batch.draw_calls, failAt)
           b1 == [batch EXCEPT !.draw_calls = f.draw_calls]
           b2 == IF f.ok THEN MarkFinished(b1) ELSE b1
           d == Disposal(b2, FALSE)
       IN  /\ sprite_queue' = f.sprite_queue
           /\ vertex_buffer' = f.vertex_buffer
           /\ submitted' = submitted \o f.issued
           /\ target_errors' = target_errors + (IF f.ok THEN 0 ELSE 1)
           /\ disposed' = d
           /\ batch' = [b2 EXCEPT !.live = FALSE]
           /\ outcome' = Outcome("finish",
                                 IF f.ok THEN "Ok" ELSE "Err",
                                 IF f.ok THEN b2.draw_calls ELSE 0,
                                 IF d.aborted THEN "not_finished" ELSE "none")
    /\ UNCHANGED <<drawn, calls, batches, immediate, discarded, animVars, splitVars,
                   spriteVars>>

\* The caller lets the batch go out of scope without calling finish().
Abandon ==
    /\ Running
    /\ batch.live
    /\ LET d == Disposal(batch, FALSE)
       IN  /\ disposed' = d
           /\ outcome' = Outcome("drop", "None", 0,
                                 IF d.aborted THEN "not_finished" ELSE "none")
    /\ batch' = [batch EXCEPT !.live = FALSE]
    /\ UNCHANGED <<sprite_queue, vertex_buffer, drawn, submitted, target_errors,
                   calls, batches, immediate, discarded, animVars, splitVars,
                   spriteVars>>

\* The caller's own code panics while the batch is alive: the batch is
\* dropped during unwinding (thread::panicking() is true).
Unwind ==
    /\ Running
    /\ batch.live
    /\ disposed' = Disposal(batch, TRUE)
    /\ outcome' = Outcome("drop", "None", 0, "caller")
    /\ batch' = [batch EXCEPT !.live = FALSE]
    /\ UNCHANGED <<sprite_queue, vertex_buffer, drawn, submitted, target_errors,
                   calls, batches, immediate, discarded, animVars, splitVars,
                   spriteVars>>

\* std::mem::forget(batch): the caller gives the batch up without running
\* its destructor; the renderer is no longer borrowed.
Forget ==
    /\ Running
    /\ batch.live
    /\ batch' = [batch EXCEPT !.live = FALSE]
    /\ outcome' = Outcome("forget", "None", 0, "none")
    /\ UNCHANGED <<sprite_queue, vertex_buffer, disposed, drawn, submitted,
                   target_errors, calls, batches, immediate, discarded, animVars,
                   splitVars, spriteVars>>

\* Mutant of ImmediateSubmission: the whole buffer is submitted.
ImmediateSubmission_WholeBuffer(vb, texture) == Submission(vb, texture, 0, BATCH_SIZE)

\* The target.draw(...) call of SpriteRenderer::draw, over the slices
\* 0..QUAD_VERTEX_SIZE and 0..QUAD_INDEX_SIZE.
ImmediateSubmission(vb, texture) == Submission(vb, texture, 0, 1)

\* SpriteRenderer::draw(&self, sprite, draw_params, target): callable only
\* while no batch borrows the renderer.  A draw-target error fails the
\* expect("Failed to draw sprites.").
ImmediateDraw(texture, fail) ==
    /\ Running
    /\ ~batch.live
    /\ batches + Len(immediate) < MaxBatches
    /\ LET sprite == [batch |-> 0, id |-> Len(immediate) + 1, texture |-> texture]
           vertices == get_vertex_data(sprite)
           vb2 == write(vertex_buffer, vertices)
       IN  /\ vertex_buffer' = vb2
           /\ IF fail
              THEN /\ outcome' = Outcome("renderer_draw", "None", 0, "draw_failed")
                   /\ UNCHANGED immediate
              ELSE /\ outcome' = Outcome("renderer_draw", "Ok", 0, "none")
                   /\ immediate' = Append(immediate,
                                          ImmediateSubmission(vb2, sprite.texture))
    /\ UNCHANGED <<sprite_queue, batch, disposed, drawn, submitted, target_errors,
                   calls, batches, discarded, animVars, splitVars, spriteVars>>

NoAnimation == [some |-> FALSE]
AnimIdle == [op |-> "none", arg |-> [nan |-> TRUE, v |-> 0], frame_number |-> 0,
             panic |-> FALSE, index |-> 0]
SplitIdle == [op |-> "none", size |-> <<0, 0>>, panic |-> FALSE, regions |-> <<>>]

\* SpriteRenderer::with_shader: empty queue, vertex buffer of BATCH_VERTEX_SIZE
\* vertices with no defined contents, no batch.
RendererInit ==
    /\ sprite_queue = SpriteQueue_new
    /\ vertex_buffer = [k \in 1..BATCH_VERTEX_SIZE |-> NoVertex]
    /\ batch = NoBatch
    /\ outcome = Outcome("with_shader", "Ok", 0, "none")
    /\ disposed = NotDisposed
    /\ drawn = <<>>
    /\ submitted = <<>>
    /\ target_errors = 0
    /\ calls = 0
    /\ batches = 0
    /\ immediate = <<>>
    /\ discarded = 0

NoSprite == [some |-> FALSE]
VertexIdle == [op |-> "none", vertices |-> <<>>]

\* No sprite constructed yet.
NoSpriteInit ==
    /\ this_sprite = NoSprite
    /\ vertex_out = VertexIdle

\* No animation constructed yet.
NoAnimInit ==
    /\ anim = NoAnimation
    /\ anim_out = AnimIdle

Init ==
    /\ RendererInit
    /\ NoAnimInit
    /\ NoSpriteInit
    /\ texture_size = <<0, 0>>
    /\ split_out = SplitIdle

Next ==
    \/ BeginBatch
    \/ \E texture \in Textures, failAt \in 0..BATCH_SIZE : Draw(texture, failAt)
    \/ \E failAt \in 0..BATCH_SIZE : Finish(failAt)
    \/ Abandon
    \/ Unwind
    \/ Forget
    \/ \E texture \in Textures, fail \in BOOLEAN : ImmediateDraw(texture, fail)

Spec == Init /\ [][Next]_vars

(***************************************************************************)
(* Animation (animation.rs).                                               *)
(*                                                                         *)
(* f32 values are modelled as integer multiples of one time unit plus NaN: *)
(* [nan, v].  u32 values carry a panic flag: [panic, v]; arithmetic that   *)
(* leaves the unsigned range panics in a build with overflow checks        *)
(* (debug) and wraps around without them (release), so overflow_checks is  *)
(* an input of current_key_frame.  TLC's integers are 32-bit signed and    *)
(* cannot hold 2^32, so the unsigned type is modelled with 30 bits: wrap,  *)
(* saturation and panics happen where they do for u32, at a smaller        *)
(* modulus.                                                                *)
(***************************************************************************)
U32Modulus == 2^30

NaN == [nan |-> TRUE, v |-> 0]
F32(v) == [nan |-> FALSE, v |-> v]

\* a <= b on f32: false when either side is NaN
F32Le(a, b) == ~a.nan /\ ~b.nan /\ a.v <= b.v

F32Mul(a, k) == IF a.nan THEN NaN ELSE F32(a.v * k)

U32(v) == [panic |-> FALSE, v |-> v]
Panic == [panic |-> TRUE, v |-> 0]

\* (a / b) as u32: the cast truncates toward zero, saturates at 0 and
\* 2^32-1, and maps NaN to 0.
F32DivAsU32(a, b) ==
    IF a.nan \/ b.nan THEN U32(0)
    ELSE IF b.v = 0
         THEN (IF a.v > 0 THEN U32(U32Modulus - 1) ELSE U32(0))
    ELSE IF (a.v < 0) # (b.v < 0) THEN U32(0)
    ELSE LET q == (IF a.v < 0 THEN -a.v ELSE a.v) \div (IF b.v < 0 THEN -b.v ELSE b.v)
         IN  U32(Min(q, U32Modulus - 1))

U32Sub(a, b, overflow_checks) ==
    IF a.panic \/ b.panic THEN Panic
    ELSE IF a.v >= b.v THEN U32(a.v - b.v)
    ELSE IF overflow_checks THEN Panic
    ELSE U32(a.v - b.v + U32Modulus)

U32Mul(a, b, overflow_checks) ==
    IF a.panic \/ b.panic THEN Panic
    ELSE IF a.v * b.v < U32Modulus THEN U32(a.v * b.v)
    ELSE IF overflow_checks THEN Panic
    ELSE U32((a.v * b.v) % U32Modulus)

\* a % b panics on b = 0 in every build
U32Rem(a, b) ==
    IF a.panic \/ b.panic THEN Panic
    ELSE IF b.v = 0 THEN Panic
    ELSE U32(a.v % b.v)

U32Min(a, b) ==
    IF a.panic \/ b.panic THEN Panic ELSE IF a.v <= b.v THEN a ELSE b

U32Max(a, b) ==
    IF a.panic \/ b.panic THEN Panic ELSE IF a.v >= b.v THEN a ELSE b

PlayModes == {"Normal", "Reversed", "Loop", "LoopReversed", "LoopPingPong"}

\* Mutant of Animation_new: the test is < instead of <=, so 0 is accepted.
Animation_new_ZeroAccepted(frame_duration, key_frames) ==
    IF ~frame_duration.nan /\ frame_duration.v < 0
    THEN NoAnimation
    ELSE [some |-> TRUE,
          frame_duration |-> frame_duration,
          animation_duration |-> F32Mul(frame_duration, Len(key_frames)),
          key_frames |-> key_frames,
          play_mode |-> "Normal"]

\* Animation::new: NoAnimation is None.
Animation_new(frame_duration, key_frames) ==
    IF F32Le(frame_duration, F32(0))
    THEN NoAnimation
    ELSE [some |-> TRUE,
          frame_duration |-> frame_duration,
          animation_duration |-> F32Mul(frame_duration, Len(key_frames)),
          key_frames |-> key_frames,
          play_mode |-> "Normal"]

\* The frame number of current_key_frame (animation.rs:41).
FrameNumber(a, run_time) == F32DivAsU32(run_time, a.frame_duration)

\* Mutant of PingPongFrame: the cycle is 2n long, so both end frames repeat.
PingPongFrame_LongCycle(num_frames, frame_number, oc) ==
    LET fn == U32Rem(frame_number, U32Mul(num_frames, U32(2), oc))
    IN  IF fn.panic THEN Panic
        ELSE IF fn.v >= num_frames.v
             THEN U32Sub(U32Sub(num_frames, U32(1), oc),
                         U32Sub(fn, num_frames, oc), oc)
             ELSE fn

\* The LoopPingPong arm of the match (animation.rs:45-52).
PingPongFrame(num_frames, frame_number, oc) ==
    LET fn == U32Rem(frame_number,
                     U32Sub(U32Mul(num_frames, U32(2), oc), U32(2), oc))
    IN  IF fn.panic THEN Panic
        ELSE IF fn.v >= num_frames.v
             THEN U32Sub(U32Sub(num_frames, U32(2), oc),
                         U32Sub(fn, num_frames, oc), oc)
             ELSE fn

\* Mutant of NormalFrame: the clamp is to n instead of n-1.
NormalFrame_ClampsToLen(num_frames, frame_number, oc) ==
    U32Min(num_frames, frame_number)

\* The Normal arm of the match (animation.rs:43).
NormalFrame(num_frames, frame_number, oc) ==
    U32Min(U32Sub(num_frames, U32(1), oc), frame_number)

\* Mutant of LoopReversedFrame: the frame number is not reduced modulo n
\* before the subtraction.
LoopReversedFrame_NoModulo(num_frames, frame_number, oc) ==
    U32Sub(U32Sub(num_frames, U32Min(frame_number, num_frames), oc), U32(1), oc)

\* The LoopReversed arm of the match (animation.rs:54-57).
LoopReversedFrame(num_frames, frame_number, oc) ==
    LET fn == U32Rem(frame_number, num_frames)
    IN  U32Sub(U32Sub(num_frames, fn, oc), U32(1), oc)

\* The match on play_mode (animation.rs:42-58).
PlayModeFrame(play_mode, num_frames, frame_number, oc) ==
    CASE play_mode = "Normal" ->
            NormalFrame(num_frames, frame_number, oc)
      [] play_mode = "Loop" ->
            U32Rem(frame_number, num_frames)
      [] play_mode = "LoopPingPong" ->
            PingPongFrame(num_frames, frame_number, oc)
      [] play_mode = "Reversed" ->
            U32Max(U32Sub(U32Sub(num_frames, frame_number, oc), U32(1), oc), U32(0))
      [] play_mode = "LoopReversed" ->
            LoopReversedFrame(num_frames, frame_number, oc)

\* Mutant of current_key_frame: the early return for one key frame is
\* missing, so the play mode arithmetic runs with num_frames = 1.
current_key_frame_NoSingleFrameReturn(a, run_time, overflow_checks) ==
    LET num_frames == U32(Len(a.key_frames) % U32Modulus)
        fn == PlayModeFrame(a.play_mode, num_frames,
                            FrameNumber(a, run_time), overflow_checks)
    IN  IF fn.panic \/ fn.v >= Len(a.key_frames)
        THEN [panic |-> TRUE, index |-> 0, frame |-> 0]
        ELSE [panic |-> FALSE, index |-> fn.v, frame |-> a.key_frames[fn.v + 1]]

\* Animation::current_key_frame: [panic, index, frame]; index is the 0-based
\* index into key_frames, frame the key frame returned.
current_key_frame(a, run_time, overflow_checks) ==
    LET num_frames == U32(Len(a.key_frames) % U32Modulus)
    IN  IF num_frames.v = 1
        THEN [panic |-> FALSE, index |-> 0, frame |-> a.key_frames[1]]
        ELSE LET fn == PlayModeFrame(a.play_mode, num_frames,
                                     FrameNumber(a, run_time), overflow_checks)
             IN  IF fn.panic \/ fn.v >= Len(a.key_frames)
                 THEN [panic |-> TRUE, index |-> 0, frame |-> 0]
                 ELSE [panic |-> FALSE, index |-> fn.v,
                       frame |-> a.key_frames[fn.v + 1]]

\* Bounds of the animation model.
MaxFrames == 4          \* key frames of an animation
MaxFrameDuration == 2   \* frame durations, in time units
MaxRunTime == 12        \* run times, in time units

FrameDurations == {F32(v) : v \in -1..MaxFrameDuration} \cup {NaN}
\* run times: a few frames' worth, a negative one, NaN, and one past the
\* range of the frame-number cast
RunTimes == {F32(v) : v \in -1..MaxRunTime} \cup {NaN, F32(U32Modulus)}

\* key frames are the regions 1 .. n
KeyFrames(n) == [k \in 1..n |-> k]

AnimOut(op, arg, frame_number, panic, index) ==
    [op |-> op, arg |-> arg, frame_number |-> frame_number, panic |-> panic,
     index |-> index]

AnimNew(frame_duration, n) ==
    /\ ~anim_out.panic
    /\ anim' = Animation_new(frame_duration, KeyFrames(n))
    /\ anim_out' = AnimOut("new", frame_duration, 0, FALSE, 0)
    /\ UNCHANGED <<batchVars, splitVars, spriteVars>>

\* assignment to the public field play_mode
SetPlayMode(play_mode) ==
    /\ ~anim_out.panic
    /\ anim.some
    /\ anim' = [anim EXCEPT !.play_mode = play_mode]
    /\ anim_out' = AnimOut("play_mode", NaN, 0, FALSE, 0)
    /\ UNCHANGED <<batchVars, splitVars, spriteVars>>

CurrentKeyFrame(run_time, overflow_checks) ==
    /\ ~anim_out.panic
    /\ anim.some
    /\ LET r == current_key_frame(anim, run_time, overflow_checks)
       IN  anim_out' = AnimOut("current_key_frame", run_time,
                               FrameNumber(anim, run_time).v, r.panic, r.index)
    /\ UNCHANGED <<anim, batchVars, splitVars, spriteVars>>

AnimNext ==
    \/ \E frame_duration \in FrameDurations, n \in 0..MaxFrames :
          AnimNew(frame_duration, n)
    \/ \E play_mode \in PlayModes : SetPlayMode(play_mode)
    \/ \E run_time \in RunTimes, overflow_checks \in BOOLEAN :
          CurrentKeyFrame(run_time, overflow_checks)

AnimSpec == Init /\ [][AnimNext]_vars

SelectedFrame(play_mode) ==
    /\ anim_out.op = "current_key_frame"
    /\ anim.some
    /\ anim.play_mode = play_mode
    /\ Len(anim.key_frames) >= 2

\* C6: under Reversed with n >= 2 frames, current_key_frame selects index
\* n-1 - min(frameNumber, n-1) for every frame number, so at and beyond the
\* animation's length it stays on frame 0, without u32 underflow.
C6_ReversedClamps ==
    SelectedFrame("Reversed")
        => LET n == Len(anim.key_frames)
           IN  /\ ~anim_out.panic
               /\ anim_out.index = n - 1 - Min(anim_out.frame_number, n - 1)

\* One LoopPingPong cycle of n frames: forward 0..n-1, then backward n-2..1.
PingPongCycle(n) == [k \in 1..(2 * n - 2) |-> IF k <= n THEN k - 1 ELSE 2 * n - 1 - k]

\* C7: under LoopPingPong with n >= 2 frames the selected index is periodic
\* in the frame number with cycle length 2n-2 and runs forward 0..n-1 then
\* backward n-2..1 within a cycle; for n = 4 the frame numbers 0..5 give
\* 0,1,2,3,2,1.
C7_PingPongCycle ==
    SelectedFrame("LoopPingPong")
        => LET n == Len(anim.key_frames)
               f == anim_out.frame_number
               later == current_key_frame(
                           anim,
                           F32Mul(anim.frame_duration, f + 2 * n - 2),
                           TRUE)
           IN  /\ ~anim_out.panic
               /\ anim_out.index = PingPongCycle(n)[(f % (2 * n - 2)) + 1]
               /\ (~anim.frame_duration.nan /\ f + 2 * n - 2 < U32Modulus)
                     => (~later.panic /\ later.index = anim_out.index)
               /\ (n = 4 /\ f <= 5) => anim_out.index = <<0, 1, 2, 3, 2, 1>>[f + 1]

\* C7 witness: a 4-frame LoopPingPong animation sampled on the backward leg
\* of its cycle (frame number 4, index 2).
C7_Witness ==
    /\ SelectedFrame("LoopPingPong")
    /\ Len(anim.key_frames) = 4
    /\ anim_out.frame_number = 4
    /\ anim_out.index = 2
    /\ ~anim_out.panic

\* C11: under Normal with n >= 2 frames, current_key_frame selects index
\* min(frameNumber, n-1): one frame per frame duration, then the last frame
\* for ever.
C11_NormalClamps ==
    SelectedFrame("Normal")
        => LET n == Len(anim.key_frames)
           IN  /\ ~anim_out.panic
               /\ anim_out.index = Min(anim_out.frame_number, n - 1)

\* C11 witness: a Normal animation sampled after its end stays on the last
\* frame.
C11_Witness ==
    /\ SelectedFrame("Normal")
    /\ anim_out.frame_number > Len(anim.key_frames)
    /\ anim_out.index = Len(anim.key_frames) - 1
    /\ ~anim_out.panic

\* The index current_key_frame selects for the animation under test with
\* another play mode, at the run time of the last call.
IndexUnder(play_mode) ==
    current_key_frame([anim EXCEPT !.play_mode = play_mode], anim_out.arg, TRUE)

\* C12: for n >= 2 frames and every frame number f, Loop selects f mod n and
\* LoopReversed selects n-1 - (f mod n): LoopReversed is the mirror image of
\* Loop at the same run time.
C12_LoopAndLoopReversed ==
    /\ SelectedFrame("Loop")
          => LET n == Len(anim.key_frames)
                 mirror == IndexUnder("LoopReversed")
             IN  /\ ~anim_out.panic
                 /\ anim_out.index = anim_out.frame_number % n
                 /\ ~mirror.panic
                 /\ mirror.index = n - 1 - anim_out.index
    /\ SelectedFrame("LoopReversed")
          => LET n == Len(anim.key_frames)
                 mirror == IndexUnder("Loop")
             IN  /\ ~anim_out.panic
                 /\ anim_out.index = n - 1 - (anim_out.frame_number % n)
                 /\ ~mirror.panic
                 /\ mirror.index = n - 1 - anim_out.index

\* C12 witness: a LoopReversed animation in its second loop.
C12_Witness ==
    /\ SelectedFrame("LoopReversed")
    /\ anim_out.frame_number > Len(anim.key_frames)
    /\ anim_out.frame_number % Len(anim.key_frames) = 1
    /\ anim_out.index = Len(anim.key_frames) - 2
    /\ ~anim_out.panic

\* C13: an animation with exactly one key frame returns that frame for every
\* play mode and every run time, in every build; no play mode arithmetic is
\* evaluated (under LoopPingPong it would be a remainder by 2n-2 = 0).
C13_SingleFrame ==
    (anim_out.op = "current_key_frame" /\ anim.some /\ Len(anim.key_frames) = 1)
        => /\ ~anim_out.panic
           /\ anim_out.index = 0
           /\ \A play_mode \in PlayModes, overflow_checks \in BOOLEAN :
                 LET r == current_key_frame([anim EXCEPT !.play_mode = play_mode],
                                            anim_out.arg, overflow_checks)
                 IN  ~r.panic /\ r.index = 0 /\ r.frame = anim.key_frames[1]

\* C13 witness: a one-frame LoopPingPong animation sampled late.
C13_Witness ==
    /\ anim_out.op = "current_key_frame"
    /\ anim.some
    /\ Len(anim.key_frames) = 1
    /\ anim.play_mode = "LoopPingPong"
    /\ anim_out.frame_number > 2
    /\ ~anim_out.panic

\* C24: for every animation Animation::new accepts (any frame list, any
\* positive frame duration), every play mode and every run time >= 0,
\* current_key_frame selects an index in [0, n-1] of the n key frames, with
\* no u32 underflow, division or remainder by zero, or out-of-bounds access.
C24_KeyFrameIndexInRange ==
    (/\ anim_out.op = "current_key_frame"
     /\ anim.some
     /\ ~anim_out.arg.nan
     /\ anim_out.arg.v >= 0)
        => /\ ~anim_out.panic
           /\ 0 <= anim_out.index
           /\ anim_out.index <= Len(anim.key_frames) - 1

\* C10: Animation::new returns None for every frame duration <= 0, zero
\* included, and an animation with exactly the given duration for every
\* frame duration > 0.
C10_NewRejectsNonPositive ==
    anim_out.op = "new"
        => LET d == anim_out.arg
           IN  /\ (~d.nan /\ d.v <= 0) => ~anim.some
               /\ (~d.nan /\ d.v > 0) => (anim.some /\ anim.frame_duration = d)

\* C10 witness: construction with a frame duration of exactly 0 failed.
C10_Witness ==
    /\ anim_out.op = "new"
    /\ anim_out.arg = F32(0)
    /\ ~anim.some

(***************************************************************************)
(* TextureRegion (texture.rs).  Normalized coordinates are kept as the     *)
(* fraction <<numerator, denominator>> of the f32 division that computes   *)
(* them.                                                                   *)
(***************************************************************************)
with_sub_field(tex_size, offset, size) ==
    [texture_size |-> tex_size,
     offset |-> offset,
     size |-> size,
     normalized_offset |-> << <<offset[1], tex_size[1]>>, <<offset[2], tex_size[2]>> >>,
     normalized_size |-> << <<size[1], tex_size[1]>>, <<size[2], tex_size[2]>> >>]

\* Mutant of Columns: a partial tile at the right edge is kept.
Columns_RoundUp(tex_size, size) == (tex_size[1] + size[1] - 1) \div size[1]

\* Number of tiles in a row: texture_size.0 / size.0 (u32 division).
Columns(tex_size, size) == tex_size[1] \div size[1]

\* The inner loop of split: for i in 0..(texture_size.0 / size.0)
RECURSIVE SplitColumns(_, _, _, _, _)
SplitColumns(tex_size, size, j, i, regions) ==
    IF i >= Columns(tex_size, size)
    THEN regions
    ELSE SplitColumns(tex_size, size, j, i + 1,
                      Append(regions,
                             with_sub_field(tex_size, <<i * size[1], j * size[2]>>, size)))

\* The outer loop of split: for j in 0..(texture_size.1 / size.1)
RECURSIVE SplitRows(_, _, _, _)
SplitRows(tex_size, size, j, regions) ==
    IF j >= tex_size[2] \div size[2]
    THEN regions
    ELSE SplitRows(tex_size, size, j + 1, SplitColumns(tex_size, size, j, 0, regions))

\* Mutant of split: the loops are nested the other way round (column-major).
split_ColumnMajor(tex_size, size) ==
    IF size[2] = 0 \/ (tex_size[2] \div size[2] > 0 /\ size[1] = 0)
    THEN [panic |-> TRUE, regions |-> <<>>]
    ELSE LET rows == tex_size[2] \div size[2]
             cols == IF rows = 0 THEN 0 ELSE tex_size[1] \div size[1]
         IN  [panic |-> FALSE,
              regions |-> [k \in 1..(rows * cols) |->
                             with_sub_field(tex_size,
                                            <<((k - 1) \div rows) * size[1],
                                              ((k - 1) % rows) * size[2]>>,
                                            size)]]

\* TextureRegion::split.  The u32 divisions panic on a zero tile dimension:
\* the row count is computed first, the column count only when there is a row.
split(tex_size, size) ==
    IF size[2] = 0 \/ (tex_size[2] \div size[2] > 0 /\ size[1] = 0)
    THEN [panic |-> TRUE, regions |-> <<>>]
    ELSE [panic |-> FALSE, regions |-> SplitRows(tex_size, size, 0, <<>>)]

\* Bounds of the split model.
MaxTextureDim == 5   \* texture width and height, in pixels
MaxTileDim == 3      \* tile width and height, in pixels

TextureSizes ==
    ((0..MaxTextureDim) \X (0..MaxTextureDim)) \cup {<<256, 128>>}

\* Tiles tried on a texture: small tiles on small textures, the 64-pixel
\* grid (with and without remainder) on the 256 x 128 texture.
TileSizes(tex_size) ==
    IF tex_size = <<256, 128>>
    THEN {<<64, 64>>, <<100, 64>>, <<64, 50>>, <<128, 128>>, <<256, 129>>}
    ELSE (0..MaxTileDim) \X (0..MaxTileDim)

SplitOut(op, size, panic, regions) ==
    [op |-> op, size |-> size, panic |-> panic, regions |-> regions]

Split(size) ==
    /\ ~split_out.panic
    /\ LET r == split(texture_size, size)
       IN  split_out' = SplitOut("split", size, r.panic, r.regions)
    /\ UNCHANGED <<texture_size, batchVars, animVars, spriteVars>>

SplitInit ==
    /\ RendererInit
    /\ NoAnimInit
    /\ NoSpriteInit
    /\ texture_size \in TextureSizes
    /\ split_out = SplitIdle

SplitNext == \E size \in TileSizes(texture_size) : Split(size)

SplitSpec == SplitInit /\ [][SplitNext]_vars

\* C8: split on a W x H texture with tile (w, h), w, h >= 1, returns exactly
\* floor(W/w) * floor(H/h) regions in row-major order: with cols =
\* floor(W/w), region k has offset ((k mod cols) * w, (k div cols) * h) and
\* size (w, h); remainders are discarded.  256 x 128 with 64 x 64 gives 8
\* regions, index 0 at (0,0), index 1 at (64,0), index 4 at (0,64).
C8_SplitRowMajor ==
    (split_out.op = "split" /\ split_out.size[1] >= 1 /\ split_out.size[2] >= 1)
        => LET W == texture_size[1]
               H == texture_size[2]
               w == split_out.size[1]
               h == split_out.size[2]
               cols == W \div w
               regions == split_out.regions
           IN  /\ ~split_out.panic
               /\ Len(regions) = (W \div w) * (H \div h)
               /\ \A k \in 0..(Len(regions) - 1) :
                     /\ regions[k + 1].offset = <<(k % cols) * w, (k \div cols) * h>>
                     /\ regions[k + 1].size = <<w, h>>
               /\ (texture_size = <<256, 128>> /\ split_out.size = <<64, 64>>)
                     => /\ Len(regions) = 8
                        /\ regions[1].offset = <<0, 0>>
                        /\ regions[2].offset = <<64, 0>>
                        /\ regions[5].offset = <<0, 64>>

\* C8 witness: the 256 x 128 texture split into 64 x 64 tiles.
C8_Witness ==
    /\ split_out.op = "split"
    /\ texture_size = <<256, 128>>
    /\ split_out.size = <<64, 64>>
    /\ Len(split_out.regions) = 8

\* C8 witness (remainder): a split that discards a remainder on both axes.
C8_WitnessRemainder ==
    /\ split_out.op = "split"
    /\ texture_size = <<5, 5>>
    /\ split_out.size = <<2, 3>>
    /\ Len(split_out.regions) = 2

\* The pixels of a region: columns [offset.x, offset.x + size.x) of rows
\* [offset.y, offset.y + size.y).
PixelsOf(region) ==
    {<<x, y>> : x \in region.offset[1]..(region.offset[1] + region.size[1] - 1),
                y \in region.offset[2]..(region.offset[2] + region.size[2] - 1)}

\* C21: every tile split produces lies inside the texture (offset + size <=
\* texture size on both axes, the precondition of with_sub_field) and holds
\* at least one pixel, and two distinct tiles of one split share no pixel.
C21_TilesInsideAndDisjoint ==
    split_out.op = "split"
        => LET regions == split_out.regions
           IN  /\ \A k \in 1..Len(regions) :
                     /\ regions[k].offset[1] + regions[k].size[1] <= texture_size[1]
                     /\ regions[k].offset[2] + regions[k].size[2] <= texture_size[2]
                     /\ regions[k].texture_size = texture_size
                     /\ PixelsOf(regions[k]) # {}
               /\ \A k \in 1..Len(regions) : \A l \in 1..Len(regions) :
                     k # l => PixelsOf(regions[k]) \cap PixelsOf(regions[l]) = {}

\* C21 witness: a 5 x 5 texture split into four 2 x 2 tiles, with a
\* remainder on both axes.
C21_Witness ==
    /\ split_out.op = "split"
    /\ texture_size = <<5, 5>>
    /\ split_out.size = <<2, 2>>
    /\ Len(split_out.regions) = 4

(***************************************************************************)
(* Sprite (sprite.rs 337-486).  A sprite's position and scale are whole    *)
(* numbers of pixels, its origin is kept in halves (origin <<1, 1>> is the *)
(* source's (0.5, 0.5)), its rotation is a whole number of quarter turns   *)
(* given in degrees, so that the model matrix is computed exactly.  Output *)
(* positions are in half pixels.  UVs are fractions <<numerator,           *)
(* denominator>> over the texture dimension, as in TextureRegion.          *)
(***************************************************************************)
\* TextureRegion::new: the whole texture, offset (0, 0), normalized size 1.
TextureRegion_new(tex_size) ==
    [texture_size |-> tex_size,
     offset |-> <<0, 0>>,
     size |-> tex_size,
     normalized_offset |-> << <<0, tex_size[1]>>, <<0, tex_size[2]>> >>,
     normalized_size |-> << <<tex_size[1], tex_size[1]>>, <<tex_size[2], tex_size[2]>> >>]

\* Sum of two fractions over the same texture dimension.
FracAdd(p, q) == <<p[1] + q[1], p[2]>>

\* [top_left, top_right, bot_left, bot_right]
texture_coordinates(region) ==
    LET off == region.normalized_offset
        size == region.normalized_size
        top_left == <<off[1], FracAdd(off[2], size[2])>>
        top_right == <<FracAdd(off[1], size[1]), FracAdd(off[2], size[2])>>
        bot_left == <<off[1], off[2]>>
        bot_right == <<FracAdd(off[1], size[1]), off[2]>>
    IN  <<top_left, top_right, bot_left, bot_right>>

White == <<1, 1, 1, 1>>

from_texture_region(texture_region) ==
    [some |-> TRUE,
     texture_region |-> texture_region,
     position |-> <<0, 0>>,
     origin |-> <<1, 1>>,
     rotation |-> 0,
     scale |-> <<1, 1>>,
     color |-> White,
     flip_x |-> FALSE,
     flip_y |-> FALSE]

\* cos and sin of a whole number of quarter turns.
Cos(degrees) ==
    CASE degrees = 0 -> 1 [] degrees = 90 -> 0 [] degrees = 180 -> -1 [] degrees = 270 -> 0
Sin(degrees) ==
    CASE degrees = 0 -> 0 [] degrees = 90 -> 1 [] degrees = 180 -> 0 [] degrees = 270 -> -1

\* glm::translation2d(v) * p and glm::rotation2d(angle) * p (counter-clockwise).
translation2d(v, p) == <<p[1] + v[1], p[2] + v[2]>>
rotation2d(degrees, p) ==
    <<Cos(degrees) * p[1] - Sin(degrees) * p[2],
      Sin(degrees) * p[1] + Cos(degrees) * p[2]>>
scaling2d(v, p) == <<v[1] * p[1], v[2] * p[2]>>
Neg(v) == <<-v[1], -v[2]>>

\* model * (corner.x, corner.y, 1), in half pixels.
ModelTimes(s, corner) ==
    LET size == s.texture_region.size
        scaled_size == <<2 * size[1] * s.scale[1], 2 * size[2] * s.scale[2]>>
        pixel_origin == <<size[1] * s.scale[1] * s.origin[1],
                          size[2] * s.scale[2] * s.origin[2]>>
        position == <<2 * s.position[1] - pixel_origin[1],
                      2 * s.position[2] - pixel_origin[2]>>
        scaled == scaling2d(scaled_size, corner)
        rotated == IF s.rotation # 0
                   THEN translation2d(pixel_origin,
                            rotation2d(s.rotation,
                                translation2d(Neg(pixel_origin), scaled)))
                   ELSE scaled
    IN  translation2d(position, rotated)

\* A corner table that walks the unit quad row by row.
UnitCorners_RowByRow ==
    [pos_top_left |-> <<0, 1>>, pos_top_right |-> <<1, 1>>,
     pos_bottom_left |-> <<0, 0>>, pos_bottom_right |-> <<1, 0>>]

\* The unit-quad corner behind each pos_* local of get_vertex_data.
UnitCorners ==
    [pos_top_left |-> <<0, 1>>, pos_top_right |-> <<1, 1>>,
     pos_bottom_left |-> <<1, 0>>, pos_bottom_right |-> <<0, 0>>]

\* A flip table whose (true, true) arm only flips x.
FlipCorners_BothAsFlipX(tex_coords, flip_x, flip_y) ==
    LET tl == tex_coords[1]
        tr == tex_coords[2]
        bl == tex_coords[3]
        br == tex_coords[4]
    IN  CASE ~flip_x /\ ~flip_y -> <<tl, tr, bl, br>>
          [] flip_x /\ ~flip_y -> <<tr, tl, br, bl>>
          [] ~flip_x /\ flip_y -> <<bl, br, tl, tr>>
          [] flip_x /\ flip_y -> <<tr, tl, br, bl>>

\* The match on (flip_x, flip_y):
\* (tex_top_left, tex_top_right, tex_bottom_left, tex_bottom_right)
FlipCorners(tex_coords, flip_x, flip_y) ==
    LET tl == tex_coords[1]
        tr == tex_coords[2]
        bl == tex_coords[3]
        br == tex_coords[4]
    IN  CASE ~flip_x /\ ~flip_y -> <<tl, tr, bl, br>>
          [] flip_x /\ ~flip_y -> <<tr, tl, br, bl>>
          [] ~flip_x /\ flip_y -> <<bl, br, tl, tr>>
          [] flip_x /\ flip_y -> <<br, bl, tr, tl>>

VertexData(pos, tex_coords, color) ==
    [pos |-> pos, tex_coords |-> tex_coords, color |-> color]

\* Mutant of Sprite_get_vertex_data: each output vertex takes the UV local
\* of its own name.
Sprite_get_vertex_data_ByName(s) ==
    LET tex == FlipCorners(texture_coordinates(s.texture_region), s.flip_x, s.flip_y)
        tex_top_left == tex[1]
        tex_top_right == tex[2]
        tex_bottom_left == tex[3]
        tex_bottom_right == tex[4]
        pos_top_left == ModelTimes(s, UnitCorners.pos_top_left)
        pos_top_right == ModelTimes(s, UnitCorners.pos_top_right)
        pos_bottom_left == ModelTimes(s, UnitCorners.pos_bottom_left)
        pos_bottom_right == ModelTimes(s, UnitCorners.pos_bottom_right)
    IN  <<VertexData(pos_top_left, tex_top_left, s.color),
          VertexData(pos_top_right, tex_top_right, s.color),
          VertexData(pos_bottom_left, tex_bottom_left, s.color),
          VertexData(pos_bottom_right, tex_bottom_right, s.color)>>

\* Sprite::get_vertex_data
Sprite_get_vertex_data(s) ==
    LET tex == FlipCorners(texture_coordinates(s.texture_region), s.flip_x, s.flip_y)
        tex_top_left == tex[1]
        tex_top_right == tex[2]
        tex_bottom_left == tex[3]
        tex_bottom_right == tex[4]
        pos_top_left == ModelTimes(s, UnitCorners.pos_top_left)
        pos_top_right == ModelTimes(s, UnitCorners.pos_top_right)
        pos_bottom_left == ModelTimes(s, UnitCorners.pos_bottom_left)
        pos_bottom_right == ModelTimes(s, UnitCorners.pos_bottom_right)
    IN  <<VertexData(pos_top_left, tex_top_left, s.color),
          VertexData(pos_top_right, tex_top_right, s.color),
          VertexData(pos_bottom_left, tex_bottom_right, s.color),
          VertexData(pos_bottom_right, tex_bottom_left, s.color)>>

\* Bounds of the sprite inputs.
MaxPosition == 3
MaxScale == 2
SpriteTextureSize == <<4, 2>>
Regions ==
    {TextureRegion_new(SpriteTextureSize),
     with_sub_field(SpriteTextureSize, <<1, 0>>, <<2, 1>>)}
Positions == {<<x, y>> : x \in {0, MaxPosition}, y \in {0, -MaxPosition}}
Origins == {<<x, y>> : x \in 0..2, y \in 0..2}
Rotations == {0, 90, 180, 270}
Scales == {<<x, y>> : x \in {-1, 1, MaxScale}, y \in {-1, 1, MaxScale}}
Colors == {White, <<1, 0, 0, 1>>}

\* Sprite::from_texture_region
SpriteNew(texture_region) ==
    /\ this_sprite' = from_texture_region(texture_region)
    /\ vertex_out' = VertexIdle
    /\ UNCHANGED <<batchVars, animVars, splitVars>>

\* A setter stores its argument; the vertices computed before are outdated.
SpriteSet(field, value) ==
    /\ this_sprite.some
    /\ this_sprite' = [this_sprite EXCEPT ![field] = value]
    /\ vertex_out' = VertexIdle
    /\ UNCHANGED <<batchVars, animVars, splitVars>>

SetPosition(x, y) == SpriteSet("position", <<x, y>>)
SetOrigin(x, y) == SpriteSet("origin", <<x, y>>)
SetRotation(rotation) == SpriteSet("rotation", rotation)
SetScale(scale_x, scale_y) == SpriteSet("scale", <<scale_x, scale_y>>)
SetUniformScale(scale) == SetScale(scale, scale)
SetFlipX(flip_x) == SpriteSet("flip_x", flip_x)
SetFlipY(flip_y) == SpriteSet("flip_y", flip_y)
SetColor(color) == SpriteSet("color", color)

GetVertexData ==
    /\ this_sprite.some
    /\ vertex_out' = [op |-> "get_vertex_data",
                      vertices |-> Sprite_get_vertex_data(this_sprite)]
    /\ UNCHANGED <<this_sprite, batchVars, animVars, splitVars>>

SpriteInit ==
    /\ RendererInit
    /\ NoAnimInit
    /\ NoSpriteInit
    /\ texture_size = <<0, 0>>
    /\ split_out = SplitIdle

SpriteNext ==
    \/ \E texture_region \in Regions : SpriteNew(texture_region)
    \/ \E p \in Positions : SetPosition(p[1], p[2])
    \/ \E o \in Origins : SetOrigin(o[1], o[2])
    \/ \E rotation \in Rotations : SetRotation(rotation)
    \/ \E s \in Scales : SetScale(s[1], s[2])
    \/ \E scale \in {-1, 1, MaxScale} : SetUniformScale(scale)
    \/ \E flip_x \in BOOLEAN : SetFlipX(flip_x)
    \/ \E flip_y \in BOOLEAN : SetFlipY(flip_y)
    \/ \E color \in Colors : SetColor(color)
    \/ GetVertexData

SpriteSpec == SpriteInit /\ [][SpriteNext]_vars

\* The output of get_vertex_data is that of the sprite as it is now.
Generated == vertex_out.op = "get_vertex_data"

MinOf(S) == CHOOSE m \in S : \A x \in S : m <= x
MaxOf(S) == CHOOSE m \in S : \A x \in S : m >= x
Xs == {vertex_out.vertices[k].pos[1] : k \in 1..QUAD_VERTEX_SIZE}
Ys == {vertex_out.vertices[k].pos[2] : k \in 1..QUAD_VERTEX_SIZE}
Upright ==
    /\ Generated
    /\ this_sprite.rotation = 0
    /\ this_sprite.scale[1] > 0
    /\ this_sprite.scale[2] > 0

\* C14 (as stated): for an unrotated sprite with positive scale the output
\* vertices are, by geometric position, top-left (min x, max y), top-right
\* (max x, max y), bottom-left (min x, min y), bottom-right (max x, min y),
\* in this order.
C14_RowByRowOrder ==
    Upright =>
        /\ vertex_out.vertices[1].pos = <<MinOf(Xs), MaxOf(Ys)>>
        /\ vertex_out.vertices[2].pos = <<MaxOf(Xs), MaxOf(Ys)>>
        /\ vertex_out.vertices[3].pos = <<MinOf(Xs), MinOf(Ys)>>
        /\ vertex_out.vertices[4].pos = <<MaxOf(Xs), MinOf(Ys)>>

\* C14 (amended): for an unrotated sprite with positive scale the output
\* vertices are, by geometric position, top-left (min x, max y), top-right
\* (max x, max y), bottom-right (max x, min y), bottom-left (min x, min y),
\* in this order: the outline of the quad, walked from the top-left corner.
C14_OutlineOrder ==
    Upright =>
        /\ vertex_out.vertices[1].pos = <<MinOf(Xs), MaxOf(Ys)>>
        /\ vertex_out.vertices[2].pos = <<MaxOf(Xs), MaxOf(Ys)>>
        /\ vertex_out.vertices[3].pos = <<MaxOf(Xs), MinOf(Ys)>>
        /\ vertex_out.vertices[4].pos = <<MinOf(Xs), MinOf(Ys)>>

\* C14 witness: vertices were generated for an unrotated, moved sprite of
\* scale (2, 1) whose quad has a positive width and height.
C14_Witness ==
    /\ Upright
    /\ this_sprite.scale = <<MaxScale, 1>>
    /\ this_sprite.position # <<0, 0>>
    /\ MinOf(Xs) < MaxOf(Xs)
    /\ MinOf(Ys) < MaxOf(Ys)

\* The sprite as it is now, with the given flip flags.
Flipped(flip_x, flip_y) ==
    Sprite_get_vertex_data([this_sprite EXCEPT !.flip_x = flip_x, !.flip_y = flip_y])

\* The UV on the other side of the region: left <-> right, bottom <-> top.
MirrorU(uv) ==
    LET off == this_sprite.texture_region.normalized_offset[1]
        size == this_sprite.texture_region.normalized_size[1]
    IN  <<<<2 * off[1] + size[1] - uv[1][1], uv[1][2]>>, uv[2]>>
MirrorV(uv) ==
    LET off == this_sprite.texture_region.normalized_offset[2]
        size == this_sprite.texture_region.normalized_size[2]
    IN  <<uv[1], <<2 * off[1] + size[1] - uv[2][1], uv[2][2]>>>>

\* The output vertex diagonally opposite output vertex k.
Diagonal(k) == ((k + 1) % QUAD_VERTEX_SIZE) + 1

\* C15: the flip flags affect only the UVs.  Whatever the flags, the four
\* positions and colours are those of the unflipped sprite; flip_x gives each
\* vertex the UV of the horizontally opposite corner, flip_y that of the
\* vertically opposite corner, the two flips commute, and both together give
\* each vertex the UV of the diagonally opposite corner.
C15_FlipsOnlyUVs ==
    Generated =>
        LET out == vertex_out.vertices
            plain == Flipped(FALSE, FALSE)
            flip_x == this_sprite.flip_x
            flip_y == this_sprite.flip_y
        IN  \A k \in 1..QUAD_VERTEX_SIZE :
                /\ out[k].pos = plain[k].pos
                /\ out[k].color = plain[k].color
                /\ (~flip_x /\ ~flip_y) => out[k].tex_coords = plain[k].tex_coords
                /\ (flip_x /\ ~flip_y) => out[k].tex_coords = MirrorU(plain[k].tex_coords)
                /\ (~flip_x /\ flip_y) => out[k].tex_coords = MirrorV(plain[k].tex_coords)
                /\ (flip_x /\ flip_y) =>
                       /\ out[k].tex_coords = MirrorU(Flipped(FALSE, TRUE)[k].tex_coords)
                       /\ out[k].tex_coords = MirrorV(Flipped(TRUE, FALSE)[k].tex_coords)
                       /\ out[k].tex_coords = plain[Diagonal(k)].tex_coords

\* C15 witness: vertices were generated for a sprite of the sub-region with
\* both flips set, rotated and scaled.
C15_Witness ==
    /\ Generated
    /\ this_sprite.flip_x
    /\ this_sprite.flip_y
    /\ this_sprite.rotation = 90
    /\ this_sprite.scale = <<MaxScale, -1>>
    /\ this_sprite.texture_region.offset = <<1, 0>>

\* The unit-quad corner each output vertex is the image of, in output order.
CornerOfOutput == <<<<0, 1>>, <<1, 1>>, <<1, 0>>, <<0, 0>>>>

\* The UV of unit corner (x, y) of a region:
\* (normalized_offset.x + x * normalized_size.x,
\*  normalized_offset.y + y * normalized_size.y).
CornerUV(region, corner) ==
    <<<<region.normalized_offset[1][1] + corner[1] * region.normalized_size[1][1],
        region.texture_size[1]>>,
      <<region.normalized_offset[2][1] + corner[2] * region.normalized_size[2][1],
        region.texture_size[2]>>>>

\* C23: each output vertex carries the UV of its own geometric corner.
\* Output vertex 2 is the image of unit corner (1, 0) and, unflipped, carries
\* the region's bottom-right UV; output vertex 3 is the image of (0, 0) and
\* carries the bottom-left UV; with no flip the vertex at unit corner (x, y)
\* has UV (offset.x + x * size.x, offset.y + y * size.y), normalized, for all
\* four corners.
C23_VertexCarriesOwnCornerUV ==
    Generated =>
        LET out == vertex_out.vertices
            region == this_sprite.texture_region
            unflipped == ~this_sprite.flip_x /\ ~this_sprite.flip_y
        IN  /\ \A k \in 1..QUAD_VERTEX_SIZE :
                  /\ out[k].pos = ModelTimes(this_sprite, CornerOfOutput[k])
                  /\ unflipped => out[k].tex_coords = CornerUV(region, CornerOfOutput[k])
            /\ unflipped =>
                  /\ out[3].tex_coords = texture_coordinates(region)[4]
                  /\ out[4].tex_coords = texture_coordinates(region)[3]

\* C23 witness: vertices were generated for an unflipped, turned and scaled
\* sprite of the sub-region, whose four UVs are distinct.
C23_Witness ==
    /\ Generated
    /\ ~this_sprite.flip_x /\ ~this_sprite.flip_y
    /\ this_sprite.rotation = 270
    /\ this_sprite.scale = <<MaxScale, MaxScale>>
    /\ this_sprite.texture_region.offset = <<1, 0>>
    /\ Cardinality({vertex_out.vertices[k].tex_coords : k \in 1..QUAD_VERTEX_SIZE}) = 4

(***************************************************************************)
(* Properties of the batching state machine (checked under Spec).          *)
(***************************************************************************)
RECURSIVE Flatten(_)
Flatten(seqs) == IF seqs = <<>> THEN <<>> ELSE Head(seqs) \o Flatten(Tail(seqs))

TexturesOf(sprites) == [k \in 1..Len(sprites) |-> sprites[k].texture]

\* Number of maximal contiguous runs of equal elements of a sequence.
Runs(s) ==
    IF s = <<>> THEN 0
    ELSE 1 + Cardinality({k \in 2..Len(s) : s[k] # s[k - 1]})

\* The drawn sequence cut into the pieces the flushes see: consecutive blocks
\* of BATCH_SIZE sprites, the last one possibly shorter.
RECURSIVE RunsPerFlush(_)
RunsPerFlush(s) ==
    IF Len(s) <= BATCH_SIZE THEN Runs(s)
    ELSE Runs(SubSeq(s, 1, BATCH_SIZE))
         + RunsPerFlush(SubSeq(s, BATCH_SIZE + 1, Len(s)))

FinishedOk == outcome.op = "finish" /\ outcome.result = "Ok"

\* C1: with no draw-target errors, the value finish() returns is the number
\* of maximal same-texture runs of the drawn sequence, counted separately in
\* each automatic flush and in the final flush, and summed.
C1_FinishCountsRuns ==
    (FinishedOk /\ target_errors = 0)
        => outcome.value = RunsPerFlush(TexturesOf(drawn))

\* C1 witness: finish() returned after at least one automatic flush, with a
\* run that an automatic flush cut in two (the count differs from the number
\* of runs of the whole sequence).
C1_Witness ==
    /\ FinishedOk /\ target_errors = 0
    /\ Len(drawn) > BATCH_SIZE
    /\ outcome.value > Runs(TexturesOf(drawn))

\* C2: with no draw-target errors, the vertices submitted so far followed by
\* the vertices still queued are exactly the drawn sprites' vertices in draw
\* order; after finish() the queue is empty, so the submitted quad ranges
\* concatenate to the drawn sequence: nothing lost, duplicated or reordered.
C2_SubmittedIsDrawn ==
    LET sub == Flatten([k \in 1..Len(submitted) |-> submitted[k].vertices])
        all == Flatten([k \in 1..Len(drawn) |-> get_vertex_data(drawn[k])])
    IN  (target_errors = 0 /\ (batch.live \/ FinishedOk))
            => /\ sub \o sprite_queue.vertices = all
               /\ FinishedOk => sub = all

\* C2 witness: a finished batch that went through an automatic flush and
\* whose submissions were split by texture changes.
C2_Witness ==
    /\ FinishedOk /\ target_errors = 0
    /\ Len(drawn) > BATCH_SIZE
    /\ Len(submitted) > 2

\* C3: the queue never holds more than BATCH_SIZE quads and the "Sprite
\* queue is full!" assertion of push never fails, draw-target errors or not.
C3_QueueWithinCapacity ==
    /\ len(sprite_queue) <= BATCH_SIZE
    /\ outcome.panic # "queue_full"

\* C3 witness: draw() succeeded on a full queue after an earlier automatic
\* flush had failed and left the queue full.
C3_Witness ==
    /\ outcome.op = "draw" /\ outcome.result = "Ok"
    /\ target_errors > 0
    /\ Len(drawn) > BATCH_SIZE

\* C4: a draw-target error in draw() or finish() is returned to the caller
\* and the program does not panic on that path, the disposal of the batch
\* consumed by finish() included.
C4_ErrorIsRecoverable ==
    (outcome.op \in {"draw", "finish"} /\ outcome.result = "Err")
        => outcome.panic = "none"

\* C5: when the thread is not already panicking, disposing of the batch
\* panics if and only if its finished flag was never set: a batch dropped
\* without a completed finish() panics, a batch whose finish() returned Ok
\* does not.
C5_DisposalAbortsIffUnfinished ==
    /\ (disposed.happened /\ ~disposed.panicking)
          => /\ disposed.aborted <=> ~disposed.finished
             /\ disposed.aborted <=> outcome.panic = "not_finished"
    /\ FinishedOk => (disposed.happened /\ ~disposed.aborted)
    /\ (outcome.op = "drop" /\ ~disposed.panicking) => disposed.aborted
    /\ (outcome.op = "finish" /\ outcome.result = "Err") => disposed.aborted

\* C5 witness: a batch with queued sprites was dropped without finish() and
\* the program panicked.
C5_Witness ==
    /\ outcome.op = "drop"
    /\ disposed.happened /\ ~disposed.panicking /\ disposed.aborted
    /\ len(sprite_queue) > 0

\* C5 witness (other direction): finish() returned Ok and the batch was
\* disposed of without panic.
C5_WitnessFinished ==
    /\ FinishedOk /\ disposed.happened /\ disposed.finished /\ ~disposed.aborted
    /\ Len(drawn) > 0

TargetCalls == Len(submitted) + target_errors

\* C9: draw() reaches the draw target only when the queue holds exactly
\* BATCH_SIZE quads at the call, and then the flush comes before the new
\* sprite is enqueued (after a successful draw the queue holds 1 quad: the
\* new sprite, which is in no submission); below capacity draw() makes no
\* submission, keeps the submission count and grows the queue by one.
C9_DrawFlushesOnlyAtCapacity ==
    [][(\E texture \in Textures, failAt \in 0..BATCH_SIZE : Draw(texture, failAt))
        => /\ (TargetCalls' # TargetCalls \/ batch'.draw_calls # batch.draw_calls)
                => len(sprite_queue) = BATCH_SIZE
           /\ len(sprite_queue) < BATCH_SIZE
                => /\ TargetCalls' = TargetCalls
                   /\ submitted' = submitted
                   /\ batch'.draw_calls = batch.draw_calls
                   /\ len(sprite_queue') = len(sprite_queue) + 1
                   /\ outcome'.result = "Ok"
           /\ (len(sprite_queue) = BATCH_SIZE /\ outcome'.result = "Ok")
                => /\ len(sprite_queue') = 1
                   /\ sprite_queue'.vertices = get_vertex_data(drawn'[Len(drawn')])
                   /\ Len(submitted') > Len(submitted)
                   /\ \A k \in 1..Len(submitted') :
                         \A c \in 1..Len(submitted'[k].vertices) :
                            submitted'[k].vertices[c][2] # drawn'[Len(drawn')].id
       ]_vars

\* C9 witness: a draw() at capacity succeeded: the queue holds the one new
\* quad and the earlier quads have been submitted.
C9_Witness ==
    /\ outcome.op = "draw" /\ outcome.result = "Ok"
    /\ Len(drawn) = BATCH_SIZE + 1
    /\ len(sprite_queue) = 1
    /\ Len(submitted) >= 1

\* C16: the immediate-mode draw bypasses the queue.  It reaches the draw
\* target once, with vertex range [0, 4) and index range [0, 6) holding the
\* sprite's own four vertices, and it leaves the queue (contents and length)
\* and the batch's submissions as they were.
C16_ImmediateBypassesQueue ==
    [][(\E texture \in Textures, fail \in BOOLEAN : ImmediateDraw(texture, fail))
        => /\ sprite_queue' = sprite_queue
           /\ submitted' = submitted
           /\ target_errors' = target_errors
           /\ outcome'.result = "Ok"
                => /\ Len(immediate') = Len(immediate) + 1
                   /\ LET s == immediate'[Len(immediate')]
                      IN  /\ s.vertex_start = 0
                          /\ s.vertex_end = 4
                          /\ s.index_start = 0
                          /\ s.index_end = 6
                          /\ Len(s.vertices) = 4
                          /\ \A c \in 1..4 : s.vertices[c] = <<0, Len(immediate'), c>>
           /\ outcome'.result # "Ok"
                => /\ immediate' = immediate
                   /\ outcome'.panic = "draw_failed"
       ]_vars

\* C16 witness: an immediate draw was submitted while the queue still held
\* the quads of a batch that was given up.
C16_Witness ==
    /\ outcome.op = "renderer_draw" /\ outcome.result = "Ok"
    /\ Len(immediate) = 1
    /\ len(sprite_queue) = BATCH_SIZE

\* The submissions made by the step, and the queue the step's flush saw.
Issued == SubSeq(submitted', Len(submitted) + 1, Len(submitted'))
FlushStep ==
    /\ batch.live
    /\ outcome'.op \in {"draw", "finish"}
    /\ Len(submitted') >= Len(submitted)

\* C17: the submissions of one flush of k >= 1 quads are over quad ranges
\* [o, e) that start at 0, follow each other without gap or overlap, and,
\* when the flush succeeds, end at k; the quads of one range have the
\* submission's texture, adjacent ranges have different textures, and the
\* submission over [o, e) uses vertices [4o, 4e) and indices [6o, 6e).
C17_FlushPartitionsIntoRuns ==
    [][FlushStep =>
        LET textures == sprite_queue.textures
            k == Len(textures)
            m == Len(Issued)
            o(j) == Issued[j].vertex_start \div 4
            e(j) == Issued[j].vertex_end \div 4
        IN  /\ m >= 1 => o(1) = 0
            /\ \A j \in 1..m :
                  /\ 0 <= o(j) /\ o(j) < e(j) /\ e(j) <= k
                  /\ Issued[j].vertex_start = 4 * o(j)
                  /\ Issued[j].vertex_end = 4 * e(j)
                  /\ Issued[j].index_start = 6 * o(j)
                  /\ Issued[j].index_end = 6 * e(j)
                  /\ \A q \in o(j)..(e(j) - 1) : textures[q + 1] = Issued[j].texture
            /\ \A j \in 1..(m - 1) :
                  /\ o(j + 1) = e(j)
                  /\ Issued[j + 1].texture # Issued[j].texture
            /\ (m >= 1 /\ outcome'.result = "Ok") => e(m) = k
            /\ (outcome'.op = "finish" /\ outcome'.result = "Ok" /\ k >= 1) => m >= 1
      ]_vars

\* C17 witness: a flush of a full queue of two textures made two submissions.
C17_Witness ==
    /\ outcome.op = "draw" /\ outcome.result = "Ok"
    /\ Len(drawn) = BATCH_SIZE + 1
    /\ Len(submitted) = 2
    /\ submitted[1].vertex_end = submitted[2].vertex_start
    /\ submitted[2].vertex_end = BATCH_VERTEX_SIZE

\* C18: in every reachable state the queue holds four vertices for each
\* texture handle it holds.
C18_FourVerticesPerTexture ==
    Len(sprite_queue.vertices) = 4 * Len(sprite_queue.textures)

\* C18 witness: a second batch, opened on a queue that was not empty, whose
\* automatic flush failed and left the queue full.
C18_Witness ==
    /\ batches = 2
    /\ discarded > 0
    /\ target_errors > 0
    /\ outcome.op = "draw" /\ outcome.result = "Err"
    /\ len(sprite_queue) = BATCH_SIZE

\* C19: opening a batch empties the queue whatever it held, and the new
\* batch starts with submission count 0; every vertex a batch submits was
\* drawn in that batch, so quads left over by an earlier batch are never
\* submitted.
C19_BeginBatchEmptiesQueue ==
    /\ [][BeginBatch
            => /\ sprite_queue'.vertices = <<>>
               /\ sprite_queue'.textures = <<>>
               /\ batch'.draw_calls = 0
               /\ submitted' = <<>>
         ]_vars
    /\ [](\A k \in 1..Len(submitted) :
             \A c \in 1..Len(submitted[k].vertices) :
                submitted[k].vertices[c][1] = batches)

\* C19 witness: a batch opened on a queue that a failed flush of the batch
\* before had left full has finished and submitted its own sprites.
C19_Witness ==
    /\ batches = 2
    /\ discarded = BATCH_SIZE
    /\ FinishedOk
    /\ Len(submitted) >= 1

\* C20: flushing the empty queue does nothing: finish() on an empty queue
\* uploads nothing, reaches the draw target not at all, keeps the submission
\* count and returns it unchanged, whatever the draw target would do.
C20_EmptyFlushIsNoOp ==
    [][((\E failAt \in 0..BATCH_SIZE : Finish(failAt)) /\ len(sprite_queue) = 0)
        => /\ vertex_buffer' = vertex_buffer
           /\ submitted' = submitted
           /\ TargetCalls' = TargetCalls
           /\ batch'.draw_calls = batch.draw_calls
           /\ sprite_queue' = sprite_queue
           /\ outcome'.result = "Ok"
           /\ outcome'.value = batch.draw_calls
           /\ calls = 0 => outcome'.value = 0
       ]_vars

\* C20 witness: finish() returned 0 on a batch in which nothing was drawn,
\* opened on a renderer whose buffer holds the vertices of an earlier batch.
C20_Witness ==
    /\ FinishedOk
    /\ calls = 0
    /\ outcome.value = 0
    /\ batches = 2
    /\ vertex_buffer[1] # NoVertex

\* The index buffer of the source: 6144 entries, quad q contributes
\* 4q+0, 4q+1, 4q+2, 4q+0, 4q+2, 4q+3, the largest entry is 4095.
SourceIndexPattern ==
    /\ Len(source_index_buffer) = 6144
    /\ \A q \in 0..(SOURCE_BATCH_SIZE - 1) :
          SubSeq(source_index_buffer, 6 * q + 1, 6 * q + 6)
              = <<4 * q, 4 * q + 1, 4 * q + 2, 4 * q, 4 * q + 2, 4 * q + 3>>
    /\ \A k \in 1..Len(source_index_buffer) : source_index_buffer[k] <= 4095
    /\ source_index_buffer[Len(source_index_buffer)] = 4095

\* C22: the index buffer holds 6144 16-bit entries, quad q contributing
\* 4q+0, 4q+1, 4q+2, 4q+0, 4q+2, 4q+3 without 16-bit overflow (maximum
\* 4095); and for every submission, of a batch or immediate, each entry of
\* the submitted index range [6o, 6e), read as a position in the whole vertex
\* buffer, lies in the submitted vertex range [4o, 4e).
C22_IndicesStayInSubmission ==
    /\ SourceIndexPattern
    /\ \A s \in {submitted[k] : k \in 1..Len(submitted)}
                \cup {immediate[k] : k \in 1..Len(immediate)} :
          /\ s.index_end <= Len(index_buffer)
          /\ \A p \in s.index_start..(s.index_end - 1) :
                /\ s.vertex_start <= index_buffer[p + 1]
                /\ index_buffer[p + 1] < s.vertex_end

\* C22 witness: a submission that does not start at the buffer's start has
\* been accepted.
C22_Witness ==
    \E k \in 1..Len(submitted) :
        /\ submitted[k].vertex_start > 0
        /\ submitted[k].index_start > 0

\* C25: when draw() returns a draw error, the sprite passed to it has not
\* been enqueued and the queue holds the same BATCH_SIZE quads in the same
\* order as before the call: a failed flush neither clears nor truncates it.
C25_FailedDrawKeepsQueue ==
    [][((\E texture \in Textures, failAt \in 0..BATCH_SIZE : Draw(texture, failAt))
         /\ outcome'.result = "Err")
        => /\ sprite_queue' = sprite_queue
           /\ len(sprite_queue') = BATCH_SIZE
           /\ drawn' = drawn
           /\ \A c \in 1..Len(sprite_queue'.vertices) :
                 sprite_queue'.vertices[c][2] # calls'
       ]_vars

\* C25 witness: draw() returned an error from a flush that failed part-way:
\* one submission was accepted, the next refused, and the queue is full.
C25_Witness ==
    /\ outcome.op = "draw" /\ outcome.result = "Err"
    /\ target_errors = 1
    /\ Len(submitted) = 1
    /\ len(sprite_queue) = BATCH_SIZE
    /\ Len(drawn) = BATCH_SIZE

\* C26: while a batch is open its submission counter is the number of
\* submissions the draw target accepted since the batch was opened, failed
\* flushes included: it starts at 0, grows by one with each accepted
\* submission, not with a refused one, and never decreases; finish() returns
\* that number.
C26_CounterIsAcceptedSubmissions ==
    /\ [](batch.live => batch.draw_calls = Len(submitted))
    /\ [](FinishedOk => outcome.value = Len(submitted))
    /\ [][BeginBatch => (batch'.draw_calls = 0 /\ Len(submitted') = 0)]_vars
    /\ [][(batch.live /\ batch'.live)
            => /\ batch'.draw_calls >= batch.draw_calls
               /\ batch'.draw_calls - batch.draw_calls
                     = Len(submitted') - Len(submitted)
               /\ SubSeq(submitted', 1, Len(submitted)) = submitted
         ]_vars

\* C26 witness: an open batch whose draw target refused a submission and
\* accepted two afterwards.
C26_Witness ==
    /\ batch.live
    /\ target_errors >= 1
    /\ batch.draw_calls >= 2
    /\ Len(submitted) = batch.draw_calls

====
